---------------------------- MODULE Spec2Model ----------------------------
(***************************************************************************)
(* Model of the writegeist AI service (src/ai-service/main.py): the        *)
(* section-scoped patch merge (apply_patch_to_section), the section        *)
(* extractor (extract_section) and the request handlers that load, merge,  *)
(* save and touch the last-update marker.                                  *)
(*                                                                         *)
(* A Python str is modelled as a sequence of one-character strings; the    *)
(* token "EMDASH" stands for the single character U+2014.                  *)
(***************************************************************************)
EXTENDS Integers, Sequences, FiniteSets, TLC

\* the merge/extract calls: arguments, results and position
VARIABLES current_markdown, patch_section, patch_replace, updated_markdown,
          next_section, next_replace, next_markdown,
          alt_name, section_content, alt_content, step

callVars == << current_markdown, patch_section, patch_replace, updated_markdown,
               next_section, next_replace, next_markdown,
               alt_name, section_content, alt_content, step >>

\* the service: the stored document, the marker file, the clock, the requests
\* in flight and the last answer a polling client got from /last-updated
VARIABLES db, last_update_file, clock, req, last_read

svcVars == << db, last_update_file, clock, req, last_read >>

vars == << callVars, svcVars >>

-----------------------------------------------------------------------------
(* Python string primitives                                                *)

NL == "\n"

EmDash == "EMDASH"

\* str.isspace() / regex \s on the characters the model uses
IsSpace(c) == c \in {" ", "\t", NL}

\* str.lower() / re.I on one character
LowerChar(c) ==
    CASE c = "A" -> "a"
      [] c = "B" -> "b"
      [] c = "C" -> "c"
      [] c = "D" -> "d"
      [] c = "E" -> "e"
      [] c = "F" -> "f"
      [] c = "G" -> "g"
      [] c = "H" -> "h"
      [] c = "I" -> "i"
      [] c = "J" -> "j"
      [] c = "K" -> "k"
      [] c = "L" -> "l"
      [] c = "M" -> "m"
      [] c = "N" -> "n"
      [] c = "O" -> "o"
      [] c = "P" -> "p"
      [] c = "Q" -> "q"
      [] c = "R" -> "r"
      [] c = "S" -> "s"
      [] c = "T" -> "t"
      [] c = "U" -> "u"
      [] c = "V" -> "v"
      [] c = "W" -> "w"
      [] c = "X" -> "x"
      [] c = "Y" -> "y"
      [] c = "Z" -> "z"
      [] OTHER -> c

Lower(t) == [i \in 1..Len(t) |-> LowerChar(t[i])]

\* number of leading whitespace characters of t
LeadingSpaces(t) ==
    IF \A i \in 1..Len(t) : IsSpace(t[i])
    THEN Len(t)
    ELSE (CHOOSE i \in 1..Len(t) :
              /\ ~IsSpace(t[i])
              /\ \A k \in 1..(i-1) : IsSpace(t[k])) - 1

\* number of trailing whitespace characters of t
TrailingSpaces(t) ==
    IF \A i \in 1..Len(t) : IsSpace(t[i])
    THEN Len(t)
    ELSE Len(t) - (CHOOSE i \in 1..Len(t) :
                       /\ ~IsSpace(t[i])
                       /\ \A k \in (i+1)..Len(t) : IsSpace(t[k]))

\* str.strip()
Strip(t) ==
    IF \A i \in 1..Len(t) : IsSpace(t[i])
    THEN << >>
    ELSE SubSeq(t, LeadingSpaces(t) + 1, Len(t) - TrailingSpaces(t))

\* index of the first occurrence of character c in t, 0 when there is none
IndexOf(t, c) ==
    IF \E i \in 1..Len(t) : t[i] = c
    THEN CHOOSE i \in 1..Len(t) : t[i] = c /\ \A k \in 1..(i-1) : t[k] # c
    ELSE 0

\* str.split(c)[0]
BeforeFirst(t, c) ==
    IF IndexOf(t, c) = 0 THEN t ELSE SubSeq(t, 1, IndexOf(t, c) - 1)

RECURSIVE SplitLines(_)
\* str.split('\n')
SplitLines(t) ==
    IF IndexOf(t, NL) = 0
    THEN << t >>
    ELSE << SubSeq(t, 1, IndexOf(t, NL) - 1) >>
            \o SplitLines(SubSeq(t, IndexOf(t, NL) + 1, Len(t)))

RECURSIVE JoinLines(_)
\* '\n'.join(lines)
JoinLines(ls) ==
    IF Len(ls) = 0 THEN << >>
    ELSE IF Len(ls) = 1 THEN ls[1]
    ELSE ls[1] \o << NL >> \o JoinLines(Tail(ls))

\* needle in hay
Contains(hay, needle) ==
    \E i \in 0..(Len(hay) - Len(needle)) :
        SubSeq(hay, i + 1, i + Len(needle)) = needle

\* str.startswith('* ')
StartsWithBullet(t) == Len(t) >= 2 /\ t[1] = "*" /\ t[2] = " "

\* set(str.split()): the maximal runs of non-whitespace characters
WordSet(t) ==
    { SubSeq(t, i, j) : <<i, j>> \in
        { p \in (1..Len(t)) \X (1..Len(t)) :
            /\ p[1] <= p[2]
            /\ \A k \in p[1]..p[2] : ~IsSpace(t[k])
            /\ (p[1] = 1 \/ IsSpace(t[p[1] - 1]))
            /\ (p[2] = Len(t) \/ IsSpace(t[p[2] + 1])) } }

-----------------------------------------------------------------------------
(* Header patterns                                                         *)

\* re.match(r'^\s*##\s+', line)
IsHeaderLine(line) ==
    LET a == LeadingSpaces(line)
    IN  /\ Len(line) >= a + 3
        /\ line[a + 1] = "#"
        /\ line[a + 2] = "#"
        /\ IsSpace(line[a + 3])

\* the pattern without re.I: letter case is compared exactly
HeaderMatchesCaseSensitive(line, section_name) ==
    LET a == LeadingSpaces(line)
        n == Len(line)
        m == Len(section_name)
    IN  /\ n >= a + 3
        /\ line[a + 1] = "#"
        /\ line[a + 2] = "#"
        /\ \E j \in (a + 3)..n :
              /\ \A k \in (a + 3)..j : IsSpace(line[k])
              /\ j + m <= n
              /\ \A k \in 1..m : line[j + k] = section_name[k]
              /\ \A k \in (j + m + 1)..n : IsSpace(line[k])

\* re.match(rf'^\s*##\s+{re.escape(section_name)}\s*$', line, re.I)
HeaderMatches(line, section_name) ==
    LET a == LeadingSpaces(line)
        n == Len(line)
        m == Len(section_name)
    IN  /\ n >= a + 3
        /\ line[a + 1] = "#"
        /\ line[a + 2] = "#"
        /\ \E j \in (a + 3)..n :
              /\ \A k \in (a + 3)..j : IsSpace(line[k])
              /\ j + m <= n
              /\ \A k \in 1..m : LowerChar(line[j + k]) = LowerChar(section_name[k])
              /\ \A k \in (j + m + 1)..n : IsSpace(line[k])

\* for i, line in enumerate(lines): if re.match(...): ... break
\* the 1-based index of the first matching header line, 0 when there is none
FindHeader(lines, section_name) ==
    IF \E i \in 1..Len(lines) : HeaderMatches(lines[i], section_name)
    THEN CHOOSE i \in 1..Len(lines) :
            /\ HeaderMatches(lines[i], section_name)
            /\ \A k \in 1..(i-1) : ~HeaderMatches(lines[k], section_name)
    ELSE 0

\* for i in range(section_start, len(lines)): if re.match(r'^\s*##\s+', lines[i]): ... break
\* the 1-based index of the first header line after line hdr, Len(lines)+1 when none
FindSectionEnd(lines, hdr) ==
    IF \E i \in (hdr + 1)..Len(lines) : IsHeaderLine(lines[i])
    THEN CHOOSE i \in (hdr + 1)..Len(lines) :
            /\ IsHeaderLine(lines[i])
            /\ \A k \in (hdr + 1)..(i-1) : ~IsHeaderLine(lines[k])
    ELSE Len(lines) + 1

-----------------------------------------------------------------------------
(* extract_section                                                         *)

RECURSIVE DropLeadingBlank(_)
\* while content_lines and not content_lines[0].strip(): content_lines.pop(0)
DropLeadingBlank(ls) ==
    IF Len(ls) > 0 /\ Strip(ls[1]) = << >> THEN DropLeadingBlank(Tail(ls)) ELSE ls

RECURSIVE DropTrailingBlank(_)
\* while content_lines and not content_lines[-1].strip(): content_lines.pop()
DropTrailingBlank(ls) ==
    IF Len(ls) > 0 /\ Strip(ls[Len(ls)]) = << >>
    THEN DropTrailingBlank(SubSeq(ls, 1, Len(ls) - 1))
    ELSE ls

extract_section(markdown, section_name) ==
    LET lines == SplitLines(markdown)
        hdr   == FindHeader(lines, section_name)
        e     == FindSectionEnd(lines, hdr)
    IN  IF hdr = 0
        THEN << >>
        ELSE JoinLines(DropTrailingBlank(DropLeadingBlank(SubSeq(lines, hdr + 1, e - 1))))

-----------------------------------------------------------------------------
(* apply_patch_to_section                                                  *)

\* line.strip()[2:].strip()
ItemOf(line) == Strip(SubSeq(Strip(line), 3, Len(Strip(line))))

\* item.split('(')[0].split(EMDASH)[0].strip()
NameOf(item) == Strip(BeforeFirst(BeforeFirst(item, "("), EmDash))

NameMinLen == 2

ItemMinLen == 10

\* if existing_item.lower() == new_item.lower()
ExactItemMatch(new_item, existing_item) == Lower(existing_item) = Lower(new_item)

\* the names are compared as written
NameMatchCaseSensitive(new_item, existing_item) ==
    /\ NameOf(new_item) = NameOf(existing_item)
    /\ Len(NameOf(new_item)) > NameMinLen

\* if new_name.lower() == existing_name.lower() and len(new_name) > 2
NameMatch(new_item, existing_item) ==
    /\ Lower(NameOf(new_item)) = Lower(NameOf(existing_item))
    /\ Len(NameOf(new_item)) > NameMinLen

\* the comparison with 0.8 is inclusive
SimilarityMatchInclusive(new_item, existing_item) ==
    /\ Len(new_item) > ItemMinLen
    /\ Len(existing_item) > ItemMinLen
    /\ LET new_words      == WordSet(Lower(new_item))
           existing_words == WordSet(Lower(existing_item))
       IN  /\ Cardinality(new_words) > 0
           /\ Cardinality(existing_words) > 0
           /\ 5 * Cardinality(new_words \cap existing_words)
                 >= 4 * Cardinality(new_words \cup existing_words)

\* similarity = len(intersection) / len(union); if similarity > 0.8
SimilarityMatch(new_item, existing_item) ==
    /\ Len(new_item) > ItemMinLen
    /\ Len(existing_item) > ItemMinLen
    /\ LET new_words      == WordSet(Lower(new_item))
           existing_words == WordSet(Lower(existing_item))
       IN  /\ Cardinality(new_words) > 0
           /\ Cardinality(existing_words) > 0
           /\ 5 * Cardinality(new_words \cap existing_words)
                 > 4 * Cardinality(new_words \cup existing_words)

\* the bullet branch: some incoming bullet line matches some existing bullet line
BulletDuplicate(section_lines, new_content_clean) ==
    LET new_lines_to_add == SplitLines(new_content_clean)
    IN  \E p \in 1..Len(new_lines_to_add) : \E q \in 1..Len(section_lines) :
          /\ StartsWithBullet(Strip(new_lines_to_add[p]))
          /\ StartsWithBullet(Strip(section_lines[q]))
          /\ LET new_item      == ItemOf(new_lines_to_add[p])
                 existing_item == ItemOf(section_lines[q])
             IN  \/ ExactItemMatch(new_item, existing_item)
                 \/ NameMatch(new_item, existing_item)
                 \/ SimilarityMatch(new_item, existing_item)

\* [line.strip() for line in text.split('\n') if line.strip()]
NonBlankStripped(text) ==
    { Strip(SplitLines(text)[i]) : i \in
        { k \in 1..Len(SplitLines(text)) : Strip(SplitLines(text)[k]) # << >> } }

\* the lines are compared as written, without trimming them
ProseDuplicateUntrimmed(existing_content, new_content_clean) ==
    LET new_lines      == SplitLines(new_content_clean)
        existing_lines == SplitLines(existing_content)
    IN  \E p \in 1..Len(new_lines) : \E q \in 1..Len(existing_lines) :
           /\ Strip(new_lines[p]) # << >>
           /\ new_lines[p] = existing_lines[q]

\* the else branch: some non-blank incoming line is an existing non-blank line
ProseDuplicate(existing_content, new_content_clean) ==
    NonBlankStripped(new_content_clean) \cap NonBlankStripped(existing_content) # {}

\* the separator is added without looking at the document's last line
CreateSectionAlwaysSeparated(lines, section_name, new_content) ==
    JoinLines(
        lines \o << << >> >>
        \o SplitLines(<< "#", "#", " " >> \o section_name)
        \o << << >> >>
        \o SplitLines(new_content))

\* lines 377-384: the section does not exist, add it at the end
CreateSection(lines, section_name, new_content) ==
    JoinLines(
        (IF Len(lines) > 0 /\ Strip(lines[Len(lines)]) # << >>
         THEN lines \o << << >> >> ELSE lines)
        \o SplitLines(<< "#", "#", " " >> \o section_name)
        \o << << >> >>
        \o SplitLines(new_content))

\* the lines after the section are not added back
AppendToSectionDropRest(lines, hdr, e, new_content) ==
    JoinLines(
        SubSeq(lines, 1, e - 1)
        \o (IF Strip(new_content) # << >>
            THEN (IF e - 1 > hdr /\ Strip(lines[e - 1]) # << >>
                  THEN << << >> >> ELSE << >>)
                 \o SplitLines(new_content)
            ELSE << >>))

\* the separator test without section_end > section_start
AppendToSectionSepAfterHeader(lines, hdr, e, new_content) ==
    JoinLines(
        SubSeq(lines, 1, e - 1)
        \o (IF Strip(new_content) # << >>
            THEN (IF Strip(lines[e - 1]) # << >>
                  THEN << << >> >> ELSE << >>)
                 \o SplitLines(new_content)
            ELSE << >>)
        \o SubSeq(lines, e, Len(lines)))

\* lines 460-474: add the new content to the end of the section
AppendToSection(lines, hdr, e, new_content) ==
    JoinLines(
        SubSeq(lines, 1, e - 1)
        \o (IF Strip(new_content) # << >>
            THEN (IF e - 1 > hdr /\ Strip(lines[e - 1]) # << >>
                  THEN << << >> >> ELSE << >>)
                 \o SplitLines(new_content)
            ELSE << >>)
        \o SubSeq(lines, e, Len(lines)))

\* lines 402-458: the duplicate checks; TRUE when the function returns markdown
IsDuplicate(lines, hdr, e, new_content) ==
    LET existing_content  == Strip(JoinLines(SubSeq(lines, hdr + 1, e - 1)))
        new_content_clean == Strip(new_content)
    IN  \/ Contains(existing_content, new_content_clean)
        \/ IF StartsWithBullet(new_content_clean)
           THEN BulletDuplicate(SubSeq(lines, hdr + 1, e - 1), new_content_clean)
           ELSE ProseDuplicate(existing_content, new_content_clean)

\* a duplicate patch is merged line by line: its lines that the section does
\* not hold yet are appended
apply_patch_to_section_linewise(markdown, section_name, new_content) ==
    LET lines == SplitLines(markdown)
        hdr   == FindHeader(lines, section_name)
        e     == FindSectionEnd(lines, hdr)
        fresh == SelectSeq(SplitLines(new_content),
                           LAMBDA l : \A q \in (hdr + 1)..(e - 1) :
                                         Strip(lines[q]) # Strip(l))
    IN  IF hdr = 0
        THEN CreateSection(lines, section_name, new_content)
        ELSE IF IsDuplicate(lines, hdr, e, new_content)
        THEN JoinLines(SubSeq(lines, 1, e - 1) \o fresh \o SubSeq(lines, e, Len(lines)))
        ELSE AppendToSection(lines, hdr, e, new_content)

apply_patch_to_section(markdown, section_name, new_content) ==
    LET lines == SplitLines(markdown)
        hdr   == FindHeader(lines, section_name)
        e     == FindSectionEnd(lines, hdr)
    IN  IF hdr = 0
        THEN CreateSection(lines, section_name, new_content)
        ELSE IF IsDuplicate(lines, hdr, e, new_content)
        THEN markdown
        ELSE AppendToSection(lines, hdr, e, new_content)

-----------------------------------------------------------------------------
(* Inputs of the merge and extract calls                                   *)

MaxDocLines == 3

MaxPatchLines == 2

Blank == << >>

HdrS == << "#", "#", " ", "S" >>

HdrT == << "#", "#", " ", "T" >>

BulletAbcX == << "*", " ", "a", "b", "c", " ", "(", "x", ")" >>

BulletABC == << "*", " ", "A", "B", "C" >>

BulletB == << "*", " ", "b" >>

ProseX == << "x" >>

ProseXPadded == << " ", "x" >>

\* bullets whose items are longer than 10 characters: five words, the same
\* five words and a sixth (5 of 6 words shared), and four of the five words
\* in another order (4 of 5 words shared)
LongFive == << "*", " ", "a", "a", " ", "b", "b", " ", "c", "c", " ", "d", "d", " ", "e", "e" >>

LongSix ==
    << "*", " ", "a", "a", " ", "b", "b", " ", "c", "c", " ", "d", "d", " ",
       "e", "e", " ", "f", "f" >>

LongFour == << "*", " ", "b", "b", " ", "a", "a", " ", "c", "c", " ", "d", "d" >>

\* the first four of the five words, in the same order: a part of LongFive
LongPrefix == << "*", " ", "a", "a", " ", "b", "b", " ", "c", "c", " ", "d", "d" >>

\* the two words of BulletAbcX in the other order: an item of 7 characters
ShortXAbc == << "*", " ", "(", "x", ")", " ", "a", "b", "c" >>

DocLines == { Blank, HdrS, HdrT, BulletAbcX, ProseX }

PatchLines == { Blank, BulletABC, BulletB, ProseXPadded, HdrT }

Names == { << "s" >>, << "t" >> }

AltNames == { << "S" >>, << "s" >>, << "T" >> }

SeqsUpTo(S, n) == UNION { [1..k -> S] : k \in 1..n }

Docs == { JoinLines(ls) : ls \in SeqsUpTo(DocLines, MaxDocLines) }

Contents == { JoinLines(ls) : ls \in SeqsUpTo(PatchLines, MaxPatchLines) }

NextContents == { BulletB }

MaxBullets == 2

BulletDocLines == { Blank, BulletAbcX, LongFive }

BulletPatchLines == { ShortXAbc, LongPrefix, LongSix, LongFour }

\* documents made of one section of bullets, alone or followed by a section
BulletDocs ==
    { JoinLines(<< HdrS >> \o ls \o tl) :
        ls \in SeqsUpTo(BulletDocLines, MaxBullets), tl \in { << >>, << HdrT >> } }

BulletContents == { JoinLines(ls) : ls \in SeqsUpTo(BulletPatchLines, MaxPatchLines) }

\* the patch contents tried on a document
ContentsFor(doc) ==
    Contents \cup (IF doc \in BulletDocs THEN BulletContents ELSE {})

-----------------------------------------------------------------------------
(* The merge and extract calls as steps                                    *)

MergeInit ==
    /\ current_markdown \in Docs \cup BulletDocs
    /\ patch_section \in Names
    /\ patch_replace = << >>
    /\ updated_markdown = << >>
    /\ next_section = << >>
    /\ next_replace = << >>
    /\ next_markdown = << >>
    /\ alt_name = << >>
    /\ section_content = << >>
    /\ alt_content = << >>
    /\ step = "input"
    /\ db = << >>
    /\ last_update_file = << >>
    /\ clock = 0
    /\ req = << >>
    /\ last_read = << >>

\* updated_markdown = apply_patch_to_section(current_markdown, patch.section, patch.replace)
Merge ==
    /\ step = "input"
    /\ \E c \in ContentsFor(current_markdown) :
          /\ patch_replace' = c
          /\ updated_markdown' = apply_patch_to_section(current_markdown, patch_section, c)
    /\ step' = "merged"
    /\ UNCHANGED svcVars
    /\ UNCHANGED << current_markdown, patch_section, next_section, next_replace, next_markdown,
                    alt_name, section_content, alt_content >>

\* the same patch arrives again and is applied to the merged document
MergeAgain ==
    /\ step = "merged"
    /\ next_section' = patch_section
    /\ next_replace' = patch_replace
    /\ next_markdown' = apply_patch_to_section(updated_markdown, patch_section, patch_replace)
    /\ step' = "again"
    /\ UNCHANGED svcVars
    /\ UNCHANGED << current_markdown, patch_section, patch_replace, updated_markdown,
                    alt_name, section_content, alt_content >>

\* after a patch that created its section, a patch to another section arrives
MergeNext ==
    /\ step = "merged"
    /\ FindHeader(SplitLines(current_markdown), patch_section) = 0
    /\ \E n \in Names : \E c \in NextContents :
          /\ Lower(n) # Lower(patch_section)
          /\ next_section' = n
          /\ next_replace' = c
          /\ next_markdown' = apply_patch_to_section(updated_markdown, n, c)
    /\ step' = "next"
    /\ UNCHANGED svcVars
    /\ UNCHANGED << current_markdown, patch_section, patch_replace, updated_markdown,
                    alt_name, section_content, alt_content >>

\* section_content = extract_section(markdown_content, section_name)
Extract ==
    /\ step = "input"
    /\ \E n \in AltNames :
          /\ alt_name' = n
          /\ section_content' = extract_section(current_markdown, patch_section)
          /\ alt_content' = extract_section(current_markdown, n)
    /\ step' = "extracted"
    /\ UNCHANGED svcVars
    /\ UNCHANGED << current_markdown, patch_section, patch_replace, updated_markdown,
                    next_section, next_replace, next_markdown >>

MergeStep == Merge \/ MergeAgain \/ MergeNext \/ Extract

MergeSpec == MergeInit /\ [][MergeStep]_vars

-----------------------------------------------------------------------------
(* The service: accept_patch, upload_project_content, get_last_updated     *)

MaxRequests == 2

MaxClock == 2

Requests == 1..MaxRequests

\* no row with id 1 in project_pages (or no database file)
NoRow == << "NoRow" >>

\* last_update.txt does not exist
NoFile == << "NoFile" >>

NoRead == << "NoRead" >>

\* default_markdown of create_default_project_doc, and the fallback of load_markdown
Skeleton ==
    << "#", " ", "M", "y", " ", "P", "r", "o", "j", "e", "c", "t", NL, NL,
       "#", "#", " ", "I", "d", "e", "a", "s", "-", "N", "o", "t", "e",
       "s", NL, NL, "#", "#", " ", "S", "e", "t", "t", "i", "n", "g", NL,
       NL, "#", "#", " ", "F", "u", "l", "l", " ", "O", "u", "t", "l", "i",
       "n", "e", NL, NL, "#", "#", " ", "C", "h", "a", "r", "a", "c", "t",
       "e", "r", "s" >>

SecCharacters == << "c", "h", "a", "r", "a", "c", "t", "e", "r", "s" >>

SecPlot == << "P", "l", "o", "t" >>

BulletMax == << "*", " ", "M", "a", "x" >>

HdrSetting == << "#", "#", " ", "S", "e", "t", "t", "i", "n", "g" >>

UploadDoc == << "#", " ", "P", NL, NL >> \o HdrSetting

PatchSections == { SecCharacters, SecPlot }

PatchContents == { BulletMax, HdrSetting }

UploadContents == { << >>, UploadDoc }

Digits == << "0", "1", "2", "3", "4", "5", "6", "7", "8", "9" >>

RECURSIVE IntToStr(_)
\* str(int(...)) of a non-negative integer
IntToStr(n) ==
    IF n < 10 THEN << Digits[n + 1] >>
    ELSE IntToStr(n \div 10) \o << Digits[(n % 10) + 1] >>

IsDigit(c) == \E d \in 1..10 : Digits[d] = c

DigitValue(c) == (CHOOSE d \in 1..10 : Digits[d] = c) - 1

\* the text is a string-encoded non-negative integer
IsNumber(t) == Len(t) > 0 /\ \A i \in 1..Len(t) : IsDigit(t[i])

RECURSIVE StrToInt(_)
StrToInt(t) ==
    IF Len(t) = 0 THEN 0
    ELSE 10 * StrToInt(SubSeq(t, 1, Len(t) - 1)) + DigitValue(t[Len(t)])

Idle == [ kind |-> "none", section |-> << >>, replace |-> << >>, pc |-> "idle",
          current_markdown |-> << >>, updated_markdown |-> << >>, now |-> 0,
          load_failed |-> FALSE, save_failed |-> FALSE, saved |-> FALSE,
          outcome |-> "none" ]

Init ==
    /\ db = NoRow
    /\ last_update_file = NoFile
    /\ clock = 1
    /\ req = [ r \in Requests |-> Idle ]
    /\ last_read = NoRead
    /\ current_markdown = << >>
    /\ patch_section = << >>
    /\ patch_replace = << >>
    /\ updated_markdown = << >>
    /\ next_section = << >>
    /\ next_replace = << >>
    /\ next_markdown = << >>
    /\ alt_name = << >>
    /\ section_content = << >>
    /\ alt_content = << >>
    /\ step = "service"

\* time passes: time.time() never decreases
Tick ==
    /\ clock < MaxClock
    /\ clock' = clock + 1
    /\ UNCHANGED << db, last_update_file, req, last_read, callVars >>

\* accept_patch, line 124: load_markdown() returns the stored document and
\* creates the default document when there is none
Load(r) ==
    /\ req[r].pc = "idle"
    /\ \E s \in PatchSections : \E c \in PatchContents :
          req' = [ req EXCEPT ![r] =
                     [ @ EXCEPT !.kind = "patch", !.section = s, !.replace = c,
                                !.pc = "merge",
                                !.current_markdown = IF db = NoRow THEN Skeleton ELSE db ] ]
    /\ db' = IF db = NoRow THEN Skeleton ELSE db
    /\ UNCHANGED << last_update_file, clock, last_read, callVars >>

\* load_markdown, lines 275-286 and 325-327: the database raises, the
\* exception is caught and the default text is returned
LoadFail(r) ==
    /\ req[r].pc = "idle"
    /\ \E s \in PatchSections : \E c \in PatchContents :
          req' = [ req EXCEPT ![r] =
                     [ @ EXCEPT !.kind = "patch", !.section = s, !.replace = c,
                                !.pc = "merge",
                                !.current_markdown = Skeleton,
                                !.load_failed = TRUE ] ]
    /\ UNCHANGED << db, last_update_file, clock, last_read, callVars >>

\* accept_patch, line 127
ApplyPatch(r) ==
    /\ req[r].pc = "merge"
    /\ req' = [ req EXCEPT ![r] =
                  [ @ EXCEPT !.pc = "save",
                             !.updated_markdown =
                                 apply_patch_to_section(req[r].current_markdown,
                                                        req[r].section, req[r].replace) ] ]
    /\ UNCHANGED << db, last_update_file, clock, last_read, callVars >>

\* upload_project_content, lines 194-197: the uploaded text is the text to
\* save; an empty one is refused
Upload(r) ==
    /\ req[r].pc = "idle"
    /\ \E m \in UploadContents :
          req' = [ req EXCEPT ![r] =
                     IF m = << >>
                     THEN [ @ EXCEPT !.kind = "upload", !.pc = "done",
                                     !.outcome = "error" ]
                     ELSE [ @ EXCEPT !.kind = "upload", !.pc = "save",
                                     !.updated_markdown = m ] ]
    /\ UNCHANGED << db, last_update_file, clock, last_read, callVars >>

\* save_markdown_to_database: INSERT OR REPLACE and commit
Save(r) ==
    /\ req[r].pc = "save"
    /\ db' = req[r].updated_markdown
    /\ req' = [ req EXCEPT ![r] = [ @ EXCEPT !.pc = "touch", !.saved = TRUE ] ]
    /\ UNCHANGED << last_update_file, clock, last_read, callVars >>

\* the handler goes on to update_last_modified after a save that raised
SaveFailTouches(r) ==
    /\ req[r].pc = "save"
    /\ req' = [ req EXCEPT ![r] = [ @ EXCEPT !.pc = "touch", !.save_failed = TRUE ] ]
    /\ UNCHANGED << db, last_update_file, clock, last_read, callVars >>

\* save_markdown_to_database raises; the handler answers 500
SaveFail(r) ==
    /\ req[r].pc = "save"
    /\ req' = [ req EXCEPT ![r] =
                  [ @ EXCEPT !.pc = "done", !.save_failed = TRUE, !.outcome = "error",
                             !.current_markdown = << >>, !.updated_markdown = << >> ] ]
    /\ UNCHANGED << db, last_update_file, clock, last_read, callVars >>

\* update_last_modified: int(time.time()) is evaluated
TouchClock(r) ==
    /\ req[r].pc = "touch"
    /\ req' = [ req EXCEPT ![r] = [ @ EXCEPT !.pc = "open", !.now = clock ] ]
    /\ UNCHANGED << db, last_update_file, clock, last_read, callVars >>

\* update_last_modified: write_text opens the file for writing, which
\* creates or truncates it
TouchOpen(r) ==
    /\ req[r].pc = "open"
    /\ last_update_file' = << >>
    /\ req' = [ req EXCEPT ![r] = [ @ EXCEPT !.pc = "write" ] ]
    /\ UNCHANGED << db, clock, last_read, callVars >>

\* the handler's last lines: what the request answers once the marker is
\* dealt with (a patch also writes n8n_proposal.md, which can raise)
Answer(r) ==
    [ req[r] EXCEPT !.pc = "done", !.now = 0,
                    !.current_markdown = << >>, !.updated_markdown = << >> ]

\* update_last_modified: write_text writes the text; the handler returns
TouchWrite(r) ==
    /\ req[r].pc = "write"
    /\ last_update_file' = IntToStr(req[r].now)
    /\ \E o \in (IF req[r].kind = "patch" THEN { "applied", "error" } ELSE { "applied" }) :
          req' = [ req EXCEPT ![r] = [ Answer(r) EXCEPT !.outcome = o ] ]
    /\ UNCHANGED << db, clock, last_read, callVars >>

\* update_last_modified, lines 243-244: opening the file raises, the
\* exception is swallowed; the handler returns
TouchFail(r) ==
    /\ req[r].pc = "open"
    /\ \E o \in (IF req[r].kind = "patch" THEN { "applied", "error" } ELSE { "applied" }) :
          req' = [ req EXCEPT ![r] = [ Answer(r) EXCEPT !.outcome = o ] ]
    /\ UNCHANGED << db, last_update_file, clock, last_read, callVars >>

\* get_last_updated
Poll ==
    /\ last_read' = IF last_update_file = NoFile
                    THEN << "0" >>
                    ELSE Strip(last_update_file)
    /\ UNCHANGED << db, last_update_file, clock, req, callVars >>

Next ==
    \/ Tick
    \/ Poll
    \/ \E r \in Requests :
          \/ Load(r)
          \/ LoadFail(r)
          \/ ApplyPatch(r)
          \/ Upload(r)
          \/ Save(r)
          \/ SaveFail(r)
          \/ TouchClock(r)
          \/ TouchOpen(r)
          \/ TouchWrite(r)
          \/ TouchFail(r)

Spec == Init /\ [][Next]_vars

-----------------------------------------------------------------------------
(* Vocabulary of the properties of one merge: the document before and      *)
(* after, as lines, and where the target section lies.                     *)

\* before, after, patch: the lines of the document before and after the
\* merge and of the patch; hdr: index of the target header in the document
\* before the merge, 0 if absent; end: index of the line after the target
\* section's last line
MergeView ==
    LET before == SplitLines(current_markdown)
        hdr    == FindHeader(before, patch_section)
    IN  [ before |-> before,
          after  |-> SplitLines(updated_markdown),
          patch  |-> SplitLines(patch_replace),
          hdr    |-> hdr,
          end    |-> FindSectionEnd(before, hdr) ]

\* number of lines the merge added
Added(v) == Len(v.after) - Len(v.before)

HeaderIndices(lines) == { i \in 1..Len(lines) : IsHeaderLine(lines[i]) }

\* the name a header line carries: what follows ## and the whitespace
HeaderName(line) == Strip(SubSeq(Strip(line), 3, Len(Strip(line))))

\* the lines of the section (or, for i = 0, the preamble) that starts at line i
SectionBody(lines, i) == SubSeq(lines, i + 1, FindSectionEnd(lines, i) - 1)

HasHeaderLine(lines) == \E i \in 1..Len(lines) : IsHeaderLine(lines[i])

IsPrefix(a, b) == Len(a) <= Len(b) /\ SubSeq(b, 1, Len(a)) = a

IsBlankLine(line) == Strip(line) = << >>

-----------------------------------------------------------------------------
\* C1: merge is idempotent: applying the same patch to the result of the
\* first merge leaves that result unchanged, for every document, target
\* section and patch content.
MergeIdempotent ==
    step = "again" => next_markdown = updated_markdown

-----------------------------------------------------------------------------
FrameKept(v) ==
    LET k == IF v.hdr = 0 THEN Len(v.before) ELSE v.end - 1
        n == Added(v)
    IN  /\ n >= 0
        /\ SubSeq(v.after, 1, k) = SubSeq(v.before, 1, k)
        /\ SubSeq(v.after, k + n + 1, Len(v.after))
              = SubSeq(v.before, k + 1, Len(v.before))
        /\ \A i \in (HeaderIndices(v.before) \cup {0}) \ {v.hdr} :
              LET j == IF i > k THEN i + n ELSE i
                  old == SectionBody(v.before, i)
                  new == SectionBody(v.after, j)
              IN  /\ i > 0 => v.after[j] = v.before[i]
                  /\ IsPrefix(old, new)
                  /\ DropTrailingBlank(new) = DropTrailingBlank(old)

\* C3: a merge touches nothing outside the target section: every line of
\* the document before the merge is still present in the same order, the
\* lines added form one block that lies at the end of the target section
\* (at the end of the document when the section is created), and the
\* preamble and every other section keep their header and their lines.
MergeFrame ==
    step = "merged" => LET v == MergeView IN FrameKept(v)

\* a patch was appended to a section that has a preamble or section before
\* it and a section after it
MergeFrameWitness ==
    /\ step = "merged"
    /\ LET v == MergeView
       IN  /\ v.hdr > 1
           /\ v.end <= Len(v.before)
           /\ Added(v) > 0

-----------------------------------------------------------------------------
\* the document after is the document before with the whole patch, after
\* the separator sep, inserted at the end of the target section
AppendedWith(v, sep) ==
    v.after = SubSeq(v.before, 1, v.end - 1) \o sep \o v.patch
                 \o SubSeq(v.before, v.end, Len(v.before))

\* C4: rejection is all-or-nothing: when the target section exists the
\* result is either the document unchanged, or the document with all the
\* lines of the patch, in order, inserted as one block at the end of the
\* target section (after the blank separator, when one is added); never a
\* part of the patch.
AllOrNothing ==
    step = "merged" =>
        LET v == MergeView
        IN  v.hdr # 0 =>
               \/ updated_markdown = current_markdown
               \/ AppendedWith(v, << >>)
               \/ AppendedWith(v, << Blank >>)

\* a two-line patch was rejected as a whole although one of its lines is new
AllOrNothingWitness ==
    /\ step = "merged"
    /\ updated_markdown = current_markdown
    /\ LET v == MergeView
       IN  /\ v.hdr # 0
           /\ Len(v.patch) = 2
           /\ \E i \in 1..2 :
                 /\ ~IsBlankLine(v.patch[i])
                 /\ ~Contains(current_markdown, Strip(v.patch[i]))

-----------------------------------------------------------------------------
\* C9: section lookup for extraction is case-insensitive and absence is
\* not an error: two names that are equal ignoring case extract the same
\* content, and when no header line carries the name the result is the
\* empty string.
ExtractCaseInsensitive ==
    step = "extracted" =>
        LET before == SplitLines(current_markdown)
        IN  /\ Lower(alt_name) = Lower(patch_section) => alt_content = section_content
            /\ (\A i \in HeaderIndices(before) :
                    Lower(HeaderName(before[i])) # Lower(patch_section))
               => section_content = << >>

\* a name in another letter case than the header extracted non-empty content
ExtractCaseInsensitiveWitness ==
    /\ step = "extracted"
    /\ alt_name # patch_section
    /\ Lower(alt_name) = Lower(patch_section)
    /\ section_content # << >>
    /\ LET before == SplitLines(current_markdown)
       IN  \A i \in HeaderIndices(before) : HeaderName(before[i]) # patch_section

-----------------------------------------------------------------------------
(* Section creation                                                        *)

\* the header line written for a new section: f'## {section_name}'
NewHeader(name) == << "#", "#", " " >> \o name

\* the blank separator added before a new section
CreateSep(v) ==
    IF ~IsBlankLine(v.before[Len(v.before)]) THEN << Blank >> ELSE << >>

\* the lines of the patch that precede its first level-2 header line
BeforeFirstHeader(ls) == SubSeq(ls, 1, FindSectionEnd(ls, 0) - 1)

LastHeader(lines) ==
    CHOOSE i \in HeaderIndices(lines) : \A k \in HeaderIndices(lines) : k <= i

\* the section created second lies after the section created first
CreatedInOrder ==
    LET after == SplitLines(updated_markdown)
        next  == SplitLines(next_markdown)
    IN  FindHeader(after, next_section) = 0 =>
            /\ FindHeader(next, patch_section) > 0
            /\ FindHeader(next, patch_section) < FindHeader(next, next_section)
            /\ IsPrefix(after, next)

CreatedAsWritten(v) ==
    v.after = v.before \o CreateSep(v) \o << NewHeader(patch_section) >>
                 \o << Blank >> \o v.patch

-----------------------------------------------------------------------------
(* Acceptance of a bullet block                                            *)

BulletLines(ls) == { i \in 1..Len(ls) : StartsWithBullet(Strip(ls[i])) }

\* none of the four duplicate rules matches between the patch and the
\* bullets of the target section
NoRuleMatches(body, clean) ==
    /\ ~Contains(Strip(JoinLines(body)), clean)
    /\ LET incoming == SplitLines(clean)
       IN  \A p \in BulletLines(incoming) : \A q \in BulletLines(body) :
              LET new_item      == ItemOf(incoming[p])
                  existing_item == ItemOf(body[q])
              IN  /\ ~ExactItemMatch(new_item, existing_item)
                  /\ ~NameMatch(new_item, existing_item)
                  /\ ~SimilarityMatch(new_item, existing_item)

\* the target section exists, the patch is a bullet block and no rule matches
AcceptedBulletBlock(v) ==
    /\ v.hdr # 0
    /\ StartsWithBullet(Strip(patch_replace))
    /\ NoRuleMatches(SectionBody(v.before, v.hdr), Strip(patch_replace))

\* C10, as claimed: an accepted bullet block is inserted whole after the
\* section's last line, preceded by one blank line exactly when the last
\* line of the section (its header, when nothing follows the header) is
\* non-blank.
AcceptAppendsAsClaimed ==
    step = "merged" =>
        LET v == MergeView
        IN  AcceptedBulletBlock(v) =>
               AppendedWith(v, IF ~IsBlankLine(v.before[v.end - 1])
                               THEN << Blank >> ELSE << >>)

\* C10, amended: an accepted bullet block is inserted whole, in order and
\* unmodified, after the section's last line and before the next header,
\* every existing line staying in place; one blank line precedes it exactly
\* when the section has at least one line after its header and the last of
\* them is non-blank.
AcceptAppends ==
    step = "merged" =>
        LET v == MergeView
            body == SectionBody(v.before, v.hdr)
        IN  AcceptedBulletBlock(v) =>
               AppendedWith(v, IF Len(body) > 0 /\ ~IsBlankLine(body[Len(body)])
                               THEN << Blank >> ELSE << >>)

\* a new bullet was accepted into a section that is followed by another
\* section and holds, as its last line, a bullet that shares four of its
\* five words with the new one
AcceptAppendsWitness ==
    /\ step = "merged"
    /\ LET v == MergeView
           body == SectionBody(v.before, v.hdr)
       IN  /\ AcceptedBulletBlock(v)
           /\ Len(body) > 0
           /\ body[Len(body)] = LongFive
           /\ Len(v.patch) > 0
           /\ v.patch[1] = LongFour
           /\ v.end <= Len(v.before)
           /\ Added(v) = Len(v.patch) + 1

-----------------------------------------------------------------------------
\* the patch is a bullet block for a section that exists
BulletPatch(v) == v.hdr # 0 /\ StartsWithBullet(Strip(patch_replace))

\* the bullet lines of the trimmed patch
Incoming == SplitLines(Strip(patch_replace))

\* incoming bullet line a and existing bullet line b carry the same name,
\* ignoring case, and the incoming name has more than 2 characters
SameName(a, b) ==
    LET new_name      == NameOf(ItemOf(a))
        existing_name == NameOf(ItemOf(b))
    IN  Len(new_name) > 2 /\ Lower(new_name) = Lower(existing_name)

\* C11: name-match rejection: a bullet-block patch into an existing section
\* is rejected whole (the document is returned unchanged) when the name of
\* any of its bullet lines has more than 2 characters and equals, ignoring
\* case, the name of any bullet line of the section, whatever the other
\* bullets of the patch are.
NameRejects ==
    step = "merged" =>
        LET v    == MergeView
            body == SectionBody(v.before, v.hdr)
        IN  ( /\ BulletPatch(v)
              /\ \E p \in BulletLines(Incoming) : \E q \in BulletLines(body) :
                    SameName(Incoming[p], body[q]) )
            => updated_markdown = current_markdown

\* a patch of two bullets was rejected: its first bullet matches no bullet
\* of the section by any rule, its second carries the name of one
NameRejectsWitness ==
    /\ step = "merged"
    /\ LET v    == MergeView
           body == SectionBody(v.before, v.hdr)
       IN  /\ BulletPatch(v)
           /\ BulletLines(Incoming) = {1, 2}
           /\ BulletLines(body) # {}
           /\ \A q \in BulletLines(body) :
                 /\ ~ExactItemMatch(ItemOf(Incoming[1]), ItemOf(body[q]))
                 /\ ~SameName(Incoming[1], body[q])
                 /\ ~SimilarityMatch(ItemOf(Incoming[1]), ItemOf(body[q]))
           /\ \E q \in BulletLines(body) :
                 /\ SameName(Incoming[2], body[q])
                 /\ ~ExactItemMatch(ItemOf(Incoming[2]), ItemOf(body[q]))
           /\ ~Contains(Strip(JoinLines(body)), Strip(patch_replace))
           /\ updated_markdown = current_markdown

-----------------------------------------------------------------------------
\* the items of bullet lines a and b both have more than 10 characters
BothLong(a, b) == Len(ItemOf(a)) > 10 /\ Len(ItemOf(b)) > 10

\* the words the items of bullet lines a and b share, and all their words
SharedWords(a, b) == WordSet(Lower(ItemOf(a))) \cap WordSet(Lower(ItemOf(b)))

AllWords(a, b) == WordSet(Lower(ItemOf(a))) \cup WordSet(Lower(ItemOf(b)))

\* the Jaccard similarity of the two items is more than 0.8
OverThreshold(a, b) ==
    5 * Cardinality(SharedWords(a, b)) > 4 * Cardinality(AllWords(a, b))

\* the Jaccard similarity of the two items is 0.8
AtThreshold(a, b) ==
    5 * Cardinality(SharedWords(a, b)) = 4 * Cardinality(AllWords(a, b))

\* no incoming bullet equals an existing bullet by item text or by name
NoItemOrNameMatch(body) ==
    \A p \in BulletLines(Incoming) : \A q \in BulletLines(body) :
       /\ Lower(ItemOf(Incoming[p])) # Lower(ItemOf(body[q]))
       /\ ~SameName(Incoming[p], body[q])

\* some incoming and some existing item, both longer than 10 characters,
\* are more than 0.8 similar
SomePairOverThreshold(body) ==
    \E p \in BulletLines(Incoming) : \E q \in BulletLines(body) :
       BothLong(Incoming[p], body[q]) /\ OverThreshold(Incoming[p], body[q])

\* C12, as claimed: when the bullets of the patch match the bullets of the
\* section neither by item text nor by name, the patch is rejected exactly
\* when two items longer than 10 characters are more than 0.8 similar.
SimilarityStrictAsClaimed ==
    step = "merged" =>
        LET v    == MergeView
            body == SectionBody(v.before, v.hdr)
        IN  (BulletPatch(v) /\ NoItemOrNameMatch(body))
            => (updated_markdown = current_markdown <=> SomePairOverThreshold(body))

\* C12: the similarity threshold is strict: when the trimmed patch is not a
\* part of the section's text and its bullets match the bullets of the
\* section neither by item text nor by name, the patch is rejected exactly
\* when an incoming and an existing item, both longer than 10 characters,
\* have word sets with 5*|intersection| > 4*|union|; at exactly 0.8 the patch
\* is accepted, and an item of 10 characters or fewer never causes the
\* rejection.
SimilarityStrict ==
    step = "merged" =>
        LET v    == MergeView
            body == SectionBody(v.before, v.hdr)
        IN  ( /\ BulletPatch(v)
              /\ ~Contains(Strip(JoinLines(body)), Strip(patch_replace))
              /\ NoItemOrNameMatch(body) )
            => (updated_markdown = current_markdown <=> SomePairOverThreshold(body))

\* a patch of one bullet was accepted into a section whose one bullet shares
\* 4 of 5 words with it, both items being longer than 10 characters
SimilarityStrictWitness ==
    /\ step = "merged"
    /\ LET v    == MergeView
           body == SectionBody(v.before, v.hdr)
       IN  /\ BulletPatch(v)
           /\ Cardinality(BulletLines(Incoming)) = 1
           /\ Cardinality(BulletLines(body)) = 1
           /\ \A p \in BulletLines(Incoming) : \A q \in BulletLines(body) :
                 /\ BothLong(Incoming[p], body[q])
                 /\ AtThreshold(Incoming[p], body[q])
           /\ NoItemOrNameMatch(body)
           /\ updated_markdown # current_markdown

-----------------------------------------------------------------------------
\* the patch is a prose block for a section that exists
ProsePatch(v) == v.hdr # 0 /\ ~StartsWithBullet(Strip(patch_replace))

\* the non-blank lines of ls, trimmed
TrimmedLines(ls) == { Strip(ls[i]) : i \in { k \in 1..Len(ls) : ~IsBlankLine(ls[k]) } }

\* some non-blank line of the patch is, after trimming, a line of the section
SharesLine(v) ==
    TrimmedLines(v.patch) \cap TrimmedLines(SectionBody(v.before, v.hdr)) # {}

\* the blank line that precedes an appended block
Separator(v) ==
    LET body == SectionBody(v.before, v.hdr)
    IN  IF Len(body) > 0 /\ ~IsBlankLine(body[Len(body)]) THEN << Blank >> ELSE << >>

\* C13, as claimed: a prose patch (one with a non-blank line) into an
\* existing section is rejected when one of its non-blank lines equals,
\* after trimming, a non-blank line of the section; otherwise the whole
\* block is appended to the section.
ProseRejectsAsClaimed ==
    step = "merged" =>
        LET v == MergeView
        IN  (ProsePatch(v) /\ Strip(patch_replace) # << >>) =>
               IF SharesLine(v)
               THEN updated_markdown = current_markdown
               ELSE AppendedWith(v, Separator(v))

\* C13: prose-block rejection: a prose patch into an existing section is
\* rejected (the document is returned unchanged) when one of its non-blank
\* lines equals, after trimming, a non-blank line of the section, or when
\* the trimmed patch is a part of the section's trimmed text (an empty
\* one always is); otherwise the whole block is appended to the section.
ProseRejects ==
    step = "merged" =>
        LET v == MergeView
        IN  ProsePatch(v) =>
               IF \/ SharesLine(v)
                  \/ Contains(Strip(JoinLines(SectionBody(v.before, v.hdr))),
                              Strip(patch_replace))
               THEN updated_markdown = current_markdown
               ELSE AppendedWith(v, Separator(v))

\* a prose patch of two lines was rejected: its second line is, once
\* trimmed, a line of the section; its first line is not, and the patch as
\* a whole is not a part of the section's text
ProseRejectsWitness ==
    /\ step = "merged"
    /\ LET v == MergeView
       IN  /\ ProsePatch(v)
           /\ Len(v.patch) = 2
           /\ ~IsBlankLine(v.patch[1])
           /\ Strip(v.patch[1]) \notin TrimmedLines(SectionBody(v.before, v.hdr))
           /\ v.patch[2] \notin TrimmedLines(SectionBody(v.before, v.hdr))
           /\ Strip(v.patch[2]) \in TrimmedLines(SectionBody(v.before, v.hdr))
           /\ ~Contains(Strip(JoinLines(SectionBody(v.before, v.hdr))),
                        Strip(patch_replace))
           /\ updated_markdown = current_markdown

-----------------------------------------------------------------------------
(* Properties of the service                                               *)

Patch(r) == << req[r].section, req[r].replace >>

\* the document after the patches of r1 and then r2, merged one after the
\* other into the default document
SerialResult(r1, r2) ==
    apply_patch_to_section(
        apply_patch_to_section(Skeleton, req[r1].section, req[r1].replace),
        req[r2].section, req[r2].replace)

\* request r is a patch request that loaded and saved without a persistence
\* failure and answered "applied"
Completed(r) ==
    /\ req[r].kind = "patch"
    /\ req[r].pc = "done"
    /\ req[r].outcome = "applied"
    /\ ~req[r].load_failed
    /\ ~req[r].save_failed

\* C2: concurrent patch requests are serialized around load-merge-save:
\* when two patch requests have both completed (and no other request has
\* run), the stored document is the result of the two merges applied one
\* after the other in some order.
SerializedMerges ==
    \A r1 \in Requests : \A r2 \in Requests \ {r1} :
        ( /\ Completed(r1)
          /\ Completed(r2)
          /\ \A r \in Requests \ {r1, r2} : req[r].pc = "idle" )
        => db \in { SerialResult(r1, r2), SerialResult(r2, r1) }

-----------------------------------------------------------------------------
StoredHeaders == IF db = NoRow THEN {} ELSE HeaderIndices(SplitLines(db))

\* C6: section names stay unique: starting from the default document, after
\* any patch requests (no upload), no two level-2 headers of the stored
\* document carry names that are equal ignoring case.
UniqueSectionNames ==
    (\A r \in Requests : req[r].kind # "upload") =>
        \A i \in StoredHeaders : \A j \in StoredHeaders :
            i # j => Lower(HeaderName(SplitLines(db)[i]))
                        # Lower(HeaderName(SplitLines(db)[j]))

-----------------------------------------------------------------------------
\* C7: persistence failures are surfaced: a request whose load or save
\* failed ends with an error, and a request whose load failed never gets
\* past the save of a merged text.
FailuresSurfaced ==
    \A r \in Requests :
        /\ req[r].load_failed => req[r].pc \notin { "touch", "open", "write" }
        /\ (req[r].pc = "done" /\ (req[r].load_failed \/ req[r].save_failed))
              => req[r].outcome = "error"

-----------------------------------------------------------------------------
\* C8: the last-modified marker read by a polling client never decreases
\* from one read to the next, and reads "0" as long as no update has
\* written the marker file.
MarkerMonotone ==
    /\ [](last_update_file = NoFile => last_read \in { NoRead, << "0" >> })
    /\ [][ (last_read # NoRead /\ IsNumber(last_read) /\ IsNumber(last_read'))
              => StrToInt(last_read') >= StrToInt(last_read) ]_vars

-----------------------------------------------------------------------------
\* the request is inside update_last_modified, or about to call it
Touching(r) == req[r].pc \in { "touch", "open", "write" }

\* the steps of a patch request follow one another in the order of the
\* statements of accept_patch
InOrder(r) ==
    /\ (req'[r].pc = "merge" /\ req[r].pc # "merge") => req[r].pc = "idle"
    /\ (req'[r].pc = "save" /\ req[r].pc # "save")
          => req[r].pc = IF req'[r].kind = "patch" THEN "merge" ELSE "idle"
    /\ (req'[r].pc = "touch" /\ req[r].pc # "touch")
          => (req[r].pc = "save" /\ db' = req[r].updated_markdown)
    /\ (req'[r].pc = "open" /\ req[r].pc # "open") => req[r].pc = "touch"
    /\ (req'[r].pc = "write" /\ req[r].pc # "write") => req[r].pc = "open"

=============================================================================
